---- MODULE Spec2Model ----
(***************************************************************************)
(* A model of yagbc's instruction-execution core: the SM83 register file,  *)
(* the opcode dispatch table with its handlers, the fetch-decode-execute   *)
(* Step, and the BasicMemory address space it runs against.                 *)
(*                                                                         *)
(* Go's uint8 / uint16 arithmetic is kept at its width (% 256, % 65536).   *)
(* The three zero-initialised backing arrays of BasicMemory are kept as    *)
(* functions that hold only their non-zero cells (an absent index reads 0, *)
(* exactly like a cell never written); an index outside the array's length *)
(* is the Go run-time panic and reads as IndexOutOfRange.                  *)
(***************************************************************************)
EXTENDS Integers, Sequences, FiniteSets, TLC

VARIABLES
    Registers,    \* cpu.Registers : the register file A F B C D E H L SP PC
    Halted,       \* cpu.Halted
    TotalCycles,  \* cpu.TotalCycles
    Memory,       \* cpu.Memory : the BasicMemory (rom, wram, hram)
    last,         \* the last call made: its name, arguments, result and the state it started from
    returned,     \* the values returned by the Step calls so far, in order
    ops           \* the number of calls made so far

vars == <<Registers, Halted, TotalCycles, Memory, last, returned, ops>>

\* ------------------------------------------------------------ widths

Byte == 0 .. 255
Word == 0 .. 65535

\* uint8(v) and uint16(v): Go's truncating conversions.
uint8(v) == v % 256
uint16(v) == v % 65536

\* x | y, x & y and x &^ y on unsigned operands of any width.
RECURSIVE BitOr(_, _)
BitOr(x, y) ==
    IF x = 0 THEN y
    ELSE IF y = 0 THEN x
    ELSE (IF x % 2 = 1 \/ y % 2 = 1 THEN 1 ELSE 0) + 2 * BitOr(x \div 2, y \div 2)

RECURSIVE BitAnd(_, _)
BitAnd(x, y) ==
    IF x = 0 \/ y = 0 THEN 0
    ELSE (IF x % 2 = 1 /\ y % 2 = 1 THEN 1 ELSE 0) + 2 * BitAnd(x \div 2, y \div 2)

RECURSIVE BitAndNot(_, _)
BitAndNot(x, y) ==
    IF x = 0 THEN 0
    ELSE (IF x % 2 = 1 /\ y % 2 = 0 THEN 1 ELSE 0) + 2 * BitAndNot(x \div 2, y \div 2)

\* ------------------------------------------------------------ memory

\* len(m.rom), len(m.wram), len(m.hram)
RomSize == 32768
WramSize == 8192
HramSize == 127

\* What indexing an array outside its length yields (Go panics).
IndexOutOfRange == -1

\* arr[i] for an array of the given length.
Index(arr, size, i) ==
    IF i < 0 \/ i >= size THEN IndexOutOfRange
    ELSE IF i \in DOMAIN arr THEN arr[i] ELSE 0

\* arr[i] = v for an array of the given length (an out-of-range index
\* leaves IndexOutOfRange behind as the array).
Assign(arr, size, i, v) ==
    IF i < 0 \/ i >= size THEN IndexOutOfRange
    ELSE [j \in (IF v = 0 THEN DOMAIN arr \ {i} ELSE DOMAIN arr \cup {i}) |->
              IF j = i THEN v ELSE arr[j]]

\* A zero-initialised array: no non-zero cell.
Zeroed == [j \in {} |-> 0]

NewBasicMemory == [rom |-> Zeroed, wram |-> Zeroed, hram |-> Zeroed]

\* Read without the echo window: 0xE000-0xFDFF falls through to the default.
ReadNoEcho(m, addr) ==
    IF addr <= \h7FFF THEN Index(m.rom, RomSize, addr)
    ELSE IF addr >= \hC000 /\ addr <= \hDFFF THEN Index(m.wram, WramSize, addr - \hC000)
    ELSE IF addr >= \hFF80 /\ addr <= \hFFFE THEN Index(m.hram, HramSize, addr - \hFF80)
    ELSE \hFF

\* Read with the scratch window one address too long (<= 0xFFFF).
ReadHramTooLong(m, addr) ==
    IF addr <= \h7FFF THEN Index(m.rom, RomSize, addr)
    ELSE IF addr >= \hC000 /\ addr <= \hDFFF THEN Index(m.wram, WramSize, addr - \hC000)
    ELSE IF addr >= \hE000 /\ addr <= \hFDFF THEN Index(m.wram, WramSize, addr - \hE000)
    ELSE IF addr >= \hFF80 /\ addr <= \hFFFF THEN Index(m.hram, HramSize, addr - \hFF80)
    ELSE \hFF

\* Read whose echo window starts 0x200 cells into wram (addr - 0xDE00).
ReadEchoShifted(m, addr) ==
    IF addr <= \h7FFF THEN Index(m.rom, RomSize, addr)
    ELSE IF addr >= \hC000 /\ addr <= \hDFFF THEN Index(m.wram, WramSize, addr - \hC000)
    ELSE IF addr >= \hE000 /\ addr <= \hFDFF THEN Index(m.wram, WramSize, addr - \hDE00)
    ELSE IF addr >= \hFF80 /\ addr <= \hFFFE THEN Index(m.hram, HramSize, addr - \hFF80)
    ELSE \hFF

Read(m, addr) ==
    IF addr <= \h7FFF THEN Index(m.rom, RomSize, addr)
    ELSE IF addr >= \hC000 /\ addr <= \hDFFF THEN Index(m.wram, WramSize, addr - \hC000)
    ELSE IF addr >= \hE000 /\ addr <= \hFDFF THEN Index(m.wram, WramSize, addr - \hE000)
    ELSE IF addr >= \hFF80 /\ addr <= \hFFFE THEN Index(m.hram, HramSize, addr - \hFF80)
    ELSE \hFF

\* Write with the echo window one address too long (<= 0xFE00).
WriteEchoTooLong(m, addr, val) ==
    IF addr <= \h7FFF THEN [m EXCEPT !.rom = Assign(@, RomSize, addr, val)]
    ELSE IF addr >= \hC000 /\ addr <= \hDFFF
        THEN [m EXCEPT !.wram = Assign(@, WramSize, addr - \hC000, val)]
    ELSE IF addr >= \hE000 /\ addr <= \hFE00
        THEN [m EXCEPT !.wram = Assign(@, WramSize, addr - \hE000, val)]
    ELSE IF addr >= \hFF80 /\ addr <= \hFFFE
        THEN [m EXCEPT !.hram = Assign(@, HramSize, addr - \hFF80, val)]
    ELSE m

\* Write treating the ROM as read-only: a store below 0x8000 is discarded.
WriteRomReadOnly(m, addr, val) ==
    IF addr <= \h7FFF THEN m
    ELSE IF addr >= \hC000 /\ addr <= \hDFFF
        THEN [m EXCEPT !.wram = Assign(@, WramSize, addr - \hC000, val)]
    ELSE IF addr >= \hE000 /\ addr <= \hFDFF
        THEN [m EXCEPT !.wram = Assign(@, WramSize, addr - \hE000, val)]
    ELSE IF addr >= \hFF80 /\ addr <= \hFFFE
        THEN [m EXCEPT !.hram = Assign(@, HramSize, addr - \hFF80, val)]
    ELSE m

\* Write storing a ROM write in working memory as well (an external-RAM bank
\* aliased onto wram).
WriteRomAlsoWram(m, addr, val) ==
    IF addr <= \h7FFF
        THEN [m EXCEPT !.rom = Assign(@, RomSize, addr, val),
                       !.wram = Assign(@, WramSize, addr % WramSize, val)]
    ELSE IF addr >= \hC000 /\ addr <= \hDFFF
        THEN [m EXCEPT !.wram = Assign(@, WramSize, addr - \hC000, val)]
    ELSE IF addr >= \hE000 /\ addr <= \hFDFF
        THEN [m EXCEPT !.wram = Assign(@, WramSize, addr - \hE000, val)]
    ELSE IF addr >= \hFF80 /\ addr <= \hFFFE
        THEN [m EXCEPT !.hram = Assign(@, HramSize, addr - \hFF80, val)]
    ELSE m

Write(m, addr, val) ==
    IF addr <= \h7FFF THEN [m EXCEPT !.rom = Assign(@, RomSize, addr, val)]
    ELSE IF addr >= \hC000 /\ addr <= \hDFFF
        THEN [m EXCEPT !.wram = Assign(@, WramSize, addr - \hC000, val)]
    ELSE IF addr >= \hE000 /\ addr <= \hFDFF
        THEN [m EXCEPT !.wram = Assign(@, WramSize, addr - \hE000, val)]
    ELSE IF addr >= \hFF80 /\ addr <= \hFFFE
        THEN [m EXCEPT !.hram = Assign(@, HramSize, addr - \hFF80, val)]
    ELSE m

\* copy clearing the cells it does not fill.
CopyClearsRest(arr, size, data) ==
    LET n == IF Len(data) < size THEN Len(data) ELSE size
    IN  [j \in {i \in 0 .. n - 1 : data[i + 1] # 0} |-> data[j + 1]]

\* copy(m.rom[:], data): the first min(len(m.rom), len(data)) cells take data's bytes.
Copy(arr, size, data) ==
    LET n == IF Len(data) < size THEN Len(data) ELSE size
    IN  [j \in {i \in 0 .. n - 1 : data[i + 1] # 0} \cup {i \in DOMAIN arr : i >= n} |->
            IF j < n THEN data[j + 1] ELSE arr[j]]

\* LoadROM without its length check: copy truncates an oversized input silently.
LoadROMUnchecked(m, data) ==
    [mem |-> [m EXCEPT !.rom = Copy(@, RomSize, data)], err |-> FALSE]

\* LoadROM refusing an input that fills the ROM exactly (>= for >).
LoadROMRefusesFull(m, data) ==
    IF Len(data) >= RomSize THEN [mem |-> m, err |-> TRUE]
    ELSE [mem |-> [m EXCEPT !.rom = Copy(@, RomSize, data)], err |-> FALSE]

\* LoadROM copying before its length check.
LoadROMCopiesThenFails(m, data) ==
    [mem |-> [m EXCEPT !.rom = Copy(@, RomSize, data)], err |-> Len(data) > RomSize]

\* LoadROM returns the error (err = TRUE) or nil; mem is the memory afterwards.
LoadROM(m, data) ==
    IF Len(data) > RomSize THEN [mem |-> m, err |-> TRUE]
    ELSE [mem |-> [m EXCEPT !.rom = Copy(@, RomSize, data)], err |-> FALSE]

\* DirectWrite storing wherever Write stores.
DirectWriteAnywhere(m, addr, val) == Write(m, addr, val)

DirectWrite(m, addr, val) ==
    IF addr <= \h7FFF THEN [m EXCEPT !.rom = Assign(@, RomSize, addr, val)]
    ELSE m

\* ------------------------------------------------------------ registers

FlagZ == 128
FlagN == 64
FlagH == 32
FlagC == 16

\* NewRegisters with the values the boot ROM leaves behind.
NewRegistersPostBoot ==
    [A |-> \h01, F |-> \hB0, B |-> \h00, C |-> \h13, D |-> \h00, E |-> \hD8,
     H |-> \h01, L |-> \h4D, SP |-> \hFFFE, PC |-> \h0100]

NewRegisters ==
    [A |-> \h00, F |-> \h00, B |-> \h00, C |-> \h00, D |-> \h00, E |-> \h00,
     H |-> \h00, L |-> \h00, SP |-> \hFFFE, PC |-> \h0000]

AF(r) == BitOr(uint16(r.A * 256), r.F)
BC(r) == BitOr(uint16(r.B * 256), r.C)
DE(r) == BitOr(uint16(r.D * 256), r.E)
HL(r) == BitOr(uint16(r.H * 256), r.L)

\* SetAF storing the low byte in F unmasked.
SetAFUnmasked(r, value) == [r EXCEPT !.A = uint8(value \div 256), !.F = uint8(value)]

\* SetBC with the two bytes exchanged: low byte to B, high byte to C.
SetBCReversed(r, value) == [r EXCEPT !.B = uint8(value), !.C = uint8(value \div 256)]

SetAF(r, value) == [r EXCEPT !.A = uint8(value \div 256), !.F = BitAnd(uint8(value), \hF0)]
SetBC(r, value) == [r EXCEPT !.B = uint8(value \div 256), !.C = uint8(value)]
SetDE(r, value) == [r EXCEPT !.D = uint8(value \div 256), !.E = uint8(value)]
SetHL(r, value) == [r EXCEPT !.H = uint8(value \div 256), !.L = uint8(value)]

GetFlag(r, flag) == BitAnd(r.F, flag) # 0
GetFlagZ(r) == GetFlag(r, FlagZ)
GetFlagN(r) == GetFlag(r, FlagN)
GetFlagH(r) == GetFlag(r, FlagH)
GetFlagC(r) == GetFlag(r, FlagC)

\* SetFlag storing the mask instead of merging it into F.
SetFlagOverwrites(r, flag, value) ==
    IF value THEN [r EXCEPT !.F = flag]
    ELSE [r EXCEPT !.F = BitAndNot(@, flag)]

SetFlag(r, flag, value) ==
    IF value THEN [r EXCEPT !.F = BitOr(@, flag)]
    ELSE [r EXCEPT !.F = BitAndNot(@, flag)]

SetFlagZ(r, value) == SetFlag(r, FlagZ, value)
SetFlagN(r, value) == SetFlag(r, FlagN, value)
SetFlagH(r, value) == SetFlag(r, FlagH, value)
SetFlagC(r, value) == SetFlag(r, FlagC, value)

\* SetFlags starting from the current F instead of 0.
SetFlagsMerges(r, z, n, h, c) ==
    LET f0 == r.F
        f1 == IF z THEN BitOr(f0, FlagZ) ELSE f0
        f2 == IF n THEN BitOr(f1, FlagN) ELSE f1
        f3 == IF h THEN BitOr(f2, FlagH) ELSE f2
        f4 == IF c THEN BitOr(f3, FlagC) ELSE f3
    IN  [r EXCEPT !.F = f4]

SetFlags(r, z, n, h, c) ==
    LET f0 == 0
        f1 == IF z THEN BitOr(f0, FlagZ) ELSE f0
        f2 == IF n THEN BitOr(f1, FlagN) ELSE f1
        f3 == IF h THEN BitOr(f2, FlagH) ELSE f2
        f4 == IF c THEN BitOr(f3, FlagC) ELSE f3
    IN  [r EXCEPT !.F = f4]

\* ------------------------------------------------------------ cpu

\* A CPU value: the struct's fields, and reads, the addresses Memory.Read was
\* called with during the call in progress, in order.
NewCPU(mem) ==
    [Registers |-> NewRegisters, Memory |-> mem, Halted |-> FALSE, TotalCycles |-> 0,
     reads |-> <<>>]

\* fetchByte incrementing PC without the uint16 wrap.
fetchByteNoWrap(cpu) ==
    [value |-> Read(cpu.Memory, cpu.Registers.PC),
     cpu   |-> [cpu EXCEPT !.Registers.PC = @ + 1,
                           !.reads = Append(@, cpu.Registers.PC)]]

\* fetchByte leaving PC at 0xFFFF instead of wrapping to 0x0000.
fetchByteSticksAtTop(cpu) ==
    [value |-> Read(cpu.Memory, cpu.Registers.PC),
     cpu   |-> [cpu EXCEPT !.Registers.PC = IF @ = \hFFFF THEN @ ELSE @ + 1,
                           !.reads = Append(@, cpu.Registers.PC)]]

\* fetchByte and fetchWord return the value read and the CPU afterwards.
fetchByte(cpu) ==
    [value |-> Read(cpu.Memory, cpu.Registers.PC),
     cpu   |-> [cpu EXCEPT !.Registers.PC = uint16(@ + 1),
                           !.reads = Append(@, cpu.Registers.PC)]]

\* fetchWord taking the first byte as the high one (big-endian).
fetchWordBigEndian(cpu) ==
    LET high == fetchByte(cpu)
        low  == fetchByte(high.cpu)
    IN  [value |-> BitOr(uint16(high.value * 256), low.value), cpu |-> low.cpu]

fetchWord(cpu) ==
    LET low  == fetchByte(cpu)
        high == fetchByte(low.cpu)
    IN  [value |-> BitOr(uint16(high.value * 256), low.value), cpu |-> high.cpu]

\* opUnknown halting the core, as HALT would.
opUnknownHalts(cpu) == [cpu EXCEPT !.Halted = TRUE]

opUnknown(cpu) == cpu

opNOP(cpu) == cpu

\* opLD_A_n reading the byte at PC without fetching it: PC stays on the operand.
opLD_A_nNoAdvance(cpu) ==
    [cpu EXCEPT !.Registers.A = Read(cpu.Memory, cpu.Registers.PC),
                !.reads = Append(@, cpu.Registers.PC)]

opLD_A_n(cpu) ==
    LET f == fetchByte(cpu) IN [f.cpu EXCEPT !.Registers.A = f.value]

\* opLD_B_n storing the byte in C (the body of opLD_C_n).
opLD_B_nIntoC(cpu) ==
    LET f == fetchByte(cpu) IN [f.cpu EXCEPT !.Registers.C = f.value]

opLD_B_n(cpu) ==
    LET f == fetchByte(cpu) IN [f.cpu EXCEPT !.Registers.B = f.value]

opLD_C_n(cpu) ==
    LET f == fetchByte(cpu) IN [f.cpu EXCEPT !.Registers.C = f.value]

\* opLD_A_B storing A at the address in HL as well, as LD (HL), A would.
opLD_A_BStoresAtHL(cpu) ==
    [cpu EXCEPT !.Registers.A = cpu.Registers.B,
                !.Memory = Write(@, HL(cpu.Registers), cpu.Registers.A)]

opLD_A_B(cpu) == [cpu EXCEPT !.Registers.A = cpu.Registers.B]

\* opLD_A_C with the operands exchanged: C := A.
opLD_A_CReversed(cpu) == [cpu EXCEPT !.Registers.C = cpu.Registers.A]

opLD_A_C(cpu) == [cpu EXCEPT !.Registers.A = cpu.Registers.C]

\* opADD_A_B without SetFlagN(false): N keeps its prior value.
opADD_A_BStaleN(cpu) ==
    LET a == cpu.Registers.A
        b == cpu.Registers.B
        result == uint8(a + b)
        r1 == SetFlagZ(cpu.Registers, result = 0)
        r3 == SetFlagH(r1, uint8(BitAnd(a, \h0F) + BitAnd(b, \h0F)) > \h0F)
        r4 == SetFlagC(r3, uint16(a + b) > \hFF)
    IN  [cpu EXCEPT !.Registers = [r4 EXCEPT !.A = result]]

\* opADD_A_B setting the flags with one SetFlags call, which rebuilds F from 0.
opADD_A_BViaSetFlags(cpu) ==
    LET a == cpu.Registers.A
        b == cpu.Registers.B
        result == uint8(a + b)
        r1 == SetFlags(cpu.Registers, result = 0, FALSE,
                       uint8(BitAnd(a, \h0F) + BitAnd(b, \h0F)) > \h0F, uint16(a + b) > \hFF)
    IN  [cpu EXCEPT !.Registers = [r1 EXCEPT !.A = result]]

\* opADD_A_B setting N, as SUB would.
opADD_A_BSetsN(cpu) ==
    LET a == cpu.Registers.A
        b == cpu.Registers.B
        result == uint8(a + b)
        r1 == SetFlagZ(cpu.Registers, result = 0)
        r2 == SetFlagN(r1, TRUE)
        r3 == SetFlagH(r2, uint8(BitAnd(a, \h0F) + BitAnd(b, \h0F)) > \h0F)
        r4 == SetFlagC(r3, uint16(a + b) > \hFF)
    IN  [cpu EXCEPT !.Registers = [r4 EXCEPT !.A = result]]

opADD_A_B(cpu) ==
    LET a == cpu.Registers.A
        b == cpu.Registers.B
        result == uint8(a + b)
        r1 == SetFlagZ(cpu.Registers, result = 0)
        r2 == SetFlagN(r1, FALSE)
        r3 == SetFlagH(r2, uint8(BitAnd(a, \h0F) + BitAnd(b, \h0F)) > \h0F)
        r4 == SetFlagC(r3, uint16(a + b) > \hFF)
    IN  [cpu EXCEPT !.Registers = [r4 EXCEPT !.A = result]]

\* opJP_nn moving SP down by two as well, as CALL would.
opJP_nnMovesSP(cpu) ==
    LET addr == fetchWord(cpu)
    IN  [addr.cpu EXCEPT !.Registers.PC = addr.value, !.Registers.SP = uint16(@ + 65534)]

opJP_nn(cpu) ==
    LET addr == fetchWord(cpu) IN [addr.cpu EXCEPT !.Registers.PC = addr.value]

HexDigits == <<"0", "1", "2", "3", "4", "5", "6", "7", "8", "9", "A", "B", "C", "D", "E", "F">>

\* initOpcodes declaring LD C, n one byte long.
initOpcodesShortLD ==
    LET unknown == [i \in 0 .. 255 |->
            [Mnemonic |-> <<"UNKNOWN_0x", HexDigits[(i \div 16) + 1], HexDigits[(i % 16) + 1]>>,
             Bytes |-> 1, Cycles |-> 4, Execute |-> "opUnknown"]]
    IN  [unknown EXCEPT
            ![\h00] = [Mnemonic |-> <<"NOP">>, Bytes |-> 1, Cycles |-> 4, Execute |-> "opNOP"],
            ![\h3E] = [Mnemonic |-> <<"LD A, n">>, Bytes |-> 2, Cycles |-> 8, Execute |-> "opLD_A_n"],
            ![\h06] = [Mnemonic |-> <<"LD B, n">>, Bytes |-> 2, Cycles |-> 8, Execute |-> "opLD_B_n"],
            ![\h0E] = [Mnemonic |-> <<"LD C, n">>, Bytes |-> 1, Cycles |-> 8, Execute |-> "opLD_C_n"],
            ![\h78] = [Mnemonic |-> <<"LD A, B">>, Bytes |-> 1, Cycles |-> 4, Execute |-> "opLD_A_B"],
            ![\h79] = [Mnemonic |-> <<"LD A, C">>, Bytes |-> 1, Cycles |-> 4, Execute |-> "opLD_A_C"],
            ![\h80] = [Mnemonic |-> <<"ADD A, B">>, Bytes |-> 1, Cycles |-> 4, Execute |-> "opADD_A_B"],
            ![\hC3] = [Mnemonic |-> <<"JP nn">>, Bytes |-> 3, Cycles |-> 16, Execute |-> "opJP_nn"]]

\* initOpcodes with 0xFF registered as a 16-cycle instruction, as RST 38H is.
initOpcodesCostlyFF ==
    LET unknown == [i \in 0 .. 255 |->
            [Mnemonic |-> <<"UNKNOWN_0x", HexDigits[(i \div 16) + 1], HexDigits[(i % 16) + 1]>>,
             Bytes |-> 1, Cycles |-> 4, Execute |-> "opUnknown"]]
    IN  [unknown EXCEPT
            ![\h00] = [Mnemonic |-> <<"NOP">>, Bytes |-> 1, Cycles |-> 4, Execute |-> "opNOP"],
            ![\h3E] = [Mnemonic |-> <<"LD A, n">>, Bytes |-> 2, Cycles |-> 8, Execute |-> "opLD_A_n"],
            ![\h06] = [Mnemonic |-> <<"LD B, n">>, Bytes |-> 2, Cycles |-> 8, Execute |-> "opLD_B_n"],
            ![\h0E] = [Mnemonic |-> <<"LD C, n">>, Bytes |-> 2, Cycles |-> 8, Execute |-> "opLD_C_n"],
            ![\h78] = [Mnemonic |-> <<"LD A, B">>, Bytes |-> 1, Cycles |-> 4, Execute |-> "opLD_A_B"],
            ![\h79] = [Mnemonic |-> <<"LD A, C">>, Bytes |-> 1, Cycles |-> 4, Execute |-> "opLD_A_C"],
            ![\h80] = [Mnemonic |-> <<"ADD A, B">>, Bytes |-> 1, Cycles |-> 4, Execute |-> "opADD_A_B"],
            ![\hC3] = [Mnemonic |-> <<"JP nn">>, Bytes |-> 3, Cycles |-> 16, Execute |-> "opJP_nn"],
            ![\hFF] = [Mnemonic |-> <<"RST 38H">>, Bytes |-> 1, Cycles |-> 16, Execute |-> "opUnknown"]]

\* initOpcodes with LD A, B registered at 0x7B instead of 0x78.
initOpcodesMisplaced ==
    LET unknown == [i \in 0 .. 255 |->
            [Mnemonic |-> <<"UNKNOWN_0x", HexDigits[(i \div 16) + 1], HexDigits[(i % 16) + 1]>>,
             Bytes |-> 1, Cycles |-> 4, Execute |-> "opUnknown"]]
    IN  [unknown EXCEPT
            ![\h00] = [Mnemonic |-> <<"NOP">>, Bytes |-> 1, Cycles |-> 4, Execute |-> "opNOP"],
            ![\h3E] = [Mnemonic |-> <<"LD A, n">>, Bytes |-> 2, Cycles |-> 8, Execute |-> "opLD_A_n"],
            ![\h06] = [Mnemonic |-> <<"LD B, n">>, Bytes |-> 2, Cycles |-> 8, Execute |-> "opLD_B_n"],
            ![\h0E] = [Mnemonic |-> <<"LD C, n">>, Bytes |-> 2, Cycles |-> 8, Execute |-> "opLD_C_n"],
            ![\h7B] = [Mnemonic |-> <<"LD A, B">>, Bytes |-> 1, Cycles |-> 4, Execute |-> "opLD_A_B"],
            ![\h79] = [Mnemonic |-> <<"LD A, C">>, Bytes |-> 1, Cycles |-> 4, Execute |-> "opLD_A_C"],
            ![\h80] = [Mnemonic |-> <<"ADD A, B">>, Bytes |-> 1, Cycles |-> 4, Execute |-> "opADD_A_B"],
            ![\hC3] = [Mnemonic |-> <<"JP nn">>, Bytes |-> 3, Cycles |-> 16, Execute |-> "opJP_nn"]]

\* The table initOpcodes leaves behind: every entry UNKNOWN first, then the
\* eight implemented opcodes. Execute names the handler.
initOpcodes ==
    LET unknown == [i \in 0 .. 255 |->
            [Mnemonic |-> <<"UNKNOWN_0x", HexDigits[(i \div 16) + 1], HexDigits[(i % 16) + 1]>>,
             Bytes |-> 1, Cycles |-> 4, Execute |-> "opUnknown"]]
    IN  [unknown EXCEPT
            ![\h00] = [Mnemonic |-> <<"NOP">>, Bytes |-> 1, Cycles |-> 4, Execute |-> "opNOP"],
            ![\h3E] = [Mnemonic |-> <<"LD A, n">>, Bytes |-> 2, Cycles |-> 8, Execute |-> "opLD_A_n"],
            ![\h06] = [Mnemonic |-> <<"LD B, n">>, Bytes |-> 2, Cycles |-> 8, Execute |-> "opLD_B_n"],
            ![\h0E] = [Mnemonic |-> <<"LD C, n">>, Bytes |-> 2, Cycles |-> 8, Execute |-> "opLD_C_n"],
            ![\h78] = [Mnemonic |-> <<"LD A, B">>, Bytes |-> 1, Cycles |-> 4, Execute |-> "opLD_A_B"],
            ![\h79] = [Mnemonic |-> <<"LD A, C">>, Bytes |-> 1, Cycles |-> 4, Execute |-> "opLD_A_C"],
            ![\h80] = [Mnemonic |-> <<"ADD A, B">>, Bytes |-> 1, Cycles |-> 4, Execute |-> "opADD_A_B"],
            ![\hC3] = [Mnemonic |-> <<"JP nn">>, Bytes |-> 3, Cycles |-> 16, Execute |-> "opJP_nn"]]

opcodeTable == initOpcodes

\* instruction.Execute(cpu)
Execute(instruction, cpu) ==
    CASE instruction.Execute = "opUnknown" -> opUnknown(cpu)
      [] instruction.Execute = "opNOP"     -> opNOP(cpu)
      [] instruction.Execute = "opLD_A_n"  -> opLD_A_n(cpu)
      [] instruction.Execute = "opLD_B_n"  -> opLD_B_n(cpu)
      [] instruction.Execute = "opLD_C_n"  -> opLD_C_n(cpu)
      [] instruction.Execute = "opLD_A_B"  -> opLD_A_B(cpu)
      [] instruction.Execute = "opLD_A_C"  -> opLD_A_C(cpu)
      [] instruction.Execute = "opADD_A_B" -> opADD_A_B(cpu)
      [] instruction.Execute = "opJP_nn"   -> opJP_nn(cpu)

\* Step whose halted path still accrues its 4 cycles.
StepHaltedAccrues(cpu) ==
    IF cpu.Halted THEN [cycles |-> 4, cpu |-> [cpu EXCEPT !.TotalCycles = @ + 4]]
    ELSE LET opcode == fetchByte(cpu)
             instruction == opcodeTable[opcode.value]
             after == Execute(instruction, opcode.cpu)
         IN  [cycles |-> instruction.Cycles,
              cpu |-> [after EXCEPT !.TotalCycles = @ + instruction.Cycles]]

\* Step accruing the descriptor's byte length instead of its cycle cost.
StepAccruesBytes(cpu) ==
    IF cpu.Halted THEN [cycles |-> 4, cpu |-> cpu]
    ELSE LET opcode == fetchByte(cpu)
             instruction == opcodeTable[opcode.value]
             after == Execute(instruction, opcode.cpu)
         IN  [cycles |-> instruction.Cycles,
              cpu |-> [after EXCEPT !.TotalCycles = @ + instruction.Bytes]]

\* Step returns the cycles and the CPU afterwards. TotalCycles is a uint64; the
\* model's runs stay far below its wrap.
Step(cpu) ==
    IF cpu.Halted THEN [cycles |-> 4, cpu |-> cpu]
    ELSE LET opcode == fetchByte(cpu)
             instruction == opcodeTable[opcode.value]
             after == Execute(instruction, opcode.cpu)
         IN  [cycles |-> instruction.Cycles,
              cpu |-> [after EXCEPT !.TotalCycles = @ + instruction.Cycles]]

\* ------------------------------------------------------------ calls

\* The state a call starts from, with the name and result of the call before it.
Pre ==
    [Registers |-> Registers, Halted |-> Halted, TotalCycles |-> TotalCycles,
     Memory |-> Memory, prev |-> [op |-> last.op, ret |-> last.ret]]

\* The record of a call: ret is what it returned (Step: the cycles; LoadROM:
\* TRUE for the error, FALSE for nil; 0 for a call that returns nothing), reads
\* the addresses it read from the address space.
Call(op, arg, ret, reads) == [op |-> op, arg |-> arg, ret |-> ret, pre |-> Pre, reads |-> reads]

\* The CPU as a value, at the start of a call.
CPU ==
    [Registers |-> Registers, Memory |-> Memory, Halted |-> Halted,
     TotalCycles |-> TotalCycles, reads |-> <<>>]

\* The state in which no call has been made yet, on the CPU value cpu.
Start(cpu) ==
    \E c \in {cpu} :
        /\ Memory = c.Memory
        /\ Registers = c.Registers
        /\ Halted = c.Halted
        /\ TotalCycles = c.TotalCycles
        /\ last = [op |-> "New", arg |-> <<>>, ret |-> 0, reads |-> <<>>,
                   pre |-> [Registers |-> c.Registers, Halted |-> c.Halted,
                            TotalCycles |-> c.TotalCycles, Memory |-> c.Memory,
                            prev |-> [op |-> "New", ret |-> 0]]]
        /\ returned = <<>>
        /\ ops = 0

\* mem := NewBasicMemory(); cpu := NewCPU(mem)
New == Start(NewCPU(NewBasicMemory))

\* cpu.Step()
DoStep ==
    \E s \in {Step(CPU)} :
        /\ Registers' = s.cpu.Registers
        /\ Halted' = s.cpu.Halted
        /\ TotalCycles' = s.cpu.TotalCycles
        /\ Memory' = s.cpu.Memory
        /\ last' = Call("Step", <<>>, s.cycles, s.cpu.reads)
        /\ returned' = Append(returned, s.cycles)
        /\ ops' = ops + 1

\* cpu.Step() with its result kept in last alone: returned is not extended, so
\* that a run of tens of thousands of Steps stays small.
DoStepUnlogged ==
    \E s \in {Step(CPU)} :
        /\ Registers' = s.cpu.Registers
        /\ Halted' = s.cpu.Halted
        /\ TotalCycles' = s.cpu.TotalCycles
        /\ Memory' = s.cpu.Memory
        /\ last' = Call("Step", <<>>, s.cycles, s.cpu.reads)
        /\ ops' = ops + 1
        /\ UNCHANGED returned

\* mem.Read(addr)
DoRead(addr) ==
    /\ last' = Call("Read", <<addr>>, Read(Memory, addr), <<addr>>)
    /\ ops' = ops + 1
    /\ UNCHANGED <<Registers, Halted, TotalCycles, Memory, returned>>

\* mem.Write(addr, val)
DoWrite(addr, val) ==
    /\ Memory' = Write(Memory, addr, val)
    /\ last' = Call("Write", <<addr, val>>, 0, <<>>)
    /\ ops' = ops + 1
    /\ UNCHANGED <<Registers, Halted, TotalCycles, returned>>

\* mem.DirectWrite(addr, val)
DoDirectWrite(addr, val) ==
    /\ Memory' = DirectWrite(Memory, addr, val)
    /\ last' = Call("DirectWrite", <<addr, val>>, 0, <<>>)
    /\ ops' = ops + 1
    /\ UNCHANGED <<Registers, Halted, TotalCycles, returned>>

\* err := mem.LoadROM(data)
DoLoadROM(data) ==
    \E r \in {LoadROM(Memory, data)} :
        /\ Memory' = r.mem
        /\ last' = Call("LoadROM", <<data>>, r.err, <<>>)
        /\ ops' = ops + 1
        /\ UNCHANGED <<Registers, Halted, TotalCycles, returned>>

\* A call of one of the register file's mutators, r being the file afterwards.
DoRegs(op, arg, r) ==
    /\ Registers' = r
    /\ last' = Call(op, arg, 0, <<>>)
    /\ ops' = ops + 1
    /\ UNCHANGED <<Halted, TotalCycles, Memory, returned>>

\* ------------------------------------------------------------ the address space alone

\* The calls made on the address space in SpecMem.
MaxMemOps == 3

\* The first and last address of every region of the decode and its
\* neighbours, and the addresses memory_test.go uses.
MemAddrs ==
    {\h0000, \h0100, \h7FFF, \h8000, \hBFFF, \hC000, \hC100, \hDDFF, \hDE00, \hDFFF,
     \hE000, \hE100, \hFDFF, \hFE00, \hFF7F, \hFF80, \hFFFE, \hFFFF}

MemVals == {\h00, \h5A, \hFF}

MemData == {<<>>, <<\h5A>>, <<\h00, \h3E, \h42, \hC3>>}

MemWrite == ops < MaxMemOps /\ \E addr \in MemAddrs, val \in MemVals : DoWrite(addr, val)

MemDirectWrite ==
    ops < MaxMemOps /\ \E addr \in MemAddrs, val \in MemVals : DoDirectWrite(addr, val)

MemLoadROM == ops < MaxMemOps /\ \E data \in MemData : DoLoadROM(data)

MemRead == ops < MaxMemOps /\ \E addr \in MemAddrs : DoRead(addr)

MemStep == ops < MaxMemOps /\ DoStep

NextMem == MemWrite \/ MemDirectWrite \/ MemLoadROM \/ MemRead \/ MemStep

SpecMem == New /\ [][NextMem]_vars

\* ------------------------------------------------------------ claims on the address space

\* C5 as stated: for every offset k in 0 .. 0x1E00 (0x1E00 included) and every
\* byte x, Write(0xC000+k, x) then Read(0xE000+k) yields x, and Write(0xE000+k, x)
\* then Read(0xC000+k) yields x.
C5_MirrorThroughOffset1E00 ==
    last.op = "Write" =>
        LET addr == last.arg[1]
            x == last.arg[2]
        IN  /\ (addr >= \hC000 /\ addr - \hC000 <= \h1E00) => Read(Memory, addr + \h2000) = x
            /\ (addr >= \hE000 /\ addr - \hE000 <= \h1E00) => Read(Memory, addr - \h2000) = x

\* C5 amended: for every offset k in 0 .. 0x1DFF and every byte x, a Write at
\* 0xC000+k reads back as x at 0xE000+k, and a Write at 0xE000+k reads back as
\* x at 0xC000+k.
C5_MirrorThroughOffset1DFF ==
    last.op = "Write" =>
        LET addr == last.arg[1]
            x == last.arg[2]
        IN  /\ (addr >= \hC000 /\ addr - \hC000 <= \h1DFF) => Read(Memory, addr + \h2000) = x
            /\ (addr >= \hE000 /\ addr - \hE000 <= \h1DFF) => Read(Memory, addr - \h2000) = x

\* A Write through the last echo address that changed the byte read at the
\* last mirrored address of working memory.
C5_Witness ==
    /\ last.op = "Write"
    /\ last.arg = <<\hFDFF, \h5A>>
    /\ Read(last.pre.Memory, \hDDFF) # \h5A
    /\ Read(Memory, \hDDFF) = \h5A

\* The addresses C6 calls unmapped.
UnmappedSet == (\h8000 .. \hBFFF) \cup (\hFE00 .. \hFF7F) \cup {\hFFFF}

\* The addresses probed around a call: the sampled ones and those of TestUnmappedRegions.
ProbeAddrs == MemAddrs \cup {\h9FFF, \hA000, \hFF00}

\* C6: Read returns 0xFF at every unmapped address in every reachable state (at
\* the probed ones in every state, at all 16769 of them after at most one call),
\* and a Write to an unmapped address leaves the address space as it was, so
\* that Read is unchanged at every address.
C6_UnmappedReadsFFWritesDiscarded ==
    /\ \A a \in ProbeAddrs \cap UnmappedSet : Read(Memory, a) = \hFF
    /\ ops <= 1 => \A a \in UnmappedSet : Read(Memory, a) = \hFF
    /\ (last.op = "Write" /\ last.arg[1] \in UnmappedSet) =>
           /\ Memory = last.pre.Memory
           /\ \A b \in ProbeAddrs : Read(Memory, b) = Read(last.pre.Memory, b)

\* A Write of 0x5A to the unmapped 0xFE00 into an address space that already
\* holds data.
C6_Witness ==
    /\ last.op = "Write"
    /\ last.arg = <<\hFE00, \h5A>>
    /\ last.pre.Memory # NewBasicMemory
    /\ Read(Memory, \hFE00) = \hFF

\* C15: in every reachable state Read returns a byte at every address (at the
\* probed ones in every state, at all 65536 after at most one call), never the
\* result of an index outside rom, wram or hram; and a Read returns a byte and
\* leaves the address space as it was.
C15_ReadTotalAndPure ==
    /\ \A a \in ProbeAddrs : Read(Memory, a) \in Byte
    /\ ops <= 1 => \A a \in Word : Read(Memory, a) \in Byte
    /\ last.op = "Read" =>
           /\ last.ret \in Byte
           /\ Memory = last.pre.Memory
           /\ \A b \in ProbeAddrs : Read(Memory, b) = Read(last.pre.Memory, b)

\* A Read of the last scratch address, returning the byte a Write stored there.
C15_Witness ==
    /\ last.op = "Read"
    /\ last.arg = <<\hFFFE>>
    /\ last.pre.prev.op = "Write"
    /\ last.ret = \h5A
    /\ Memory # NewBasicMemory

\* The addresses C16 calls mapped.
MappedSet == (\h0000 .. \h7FFF) \cup (\hC000 .. \hFDFF) \cup (\hFF80 .. \hFFFE)

\* The last address of each mapped region.
RegionEnds == {\h7FFF, \hDFFF, \hFDFF, \hFFFE}

\* C16: a Write of x at a mapped address a (ROM, working memory, its echo,
\* scratch memory) is followed by Read(a) = x: for every Write made, for a Write
\* of 0x5A at each of the 48767 mapped addresses after at most one call, and
\* for every byte x at the four region ends.
C16_WriteThenReadOnMapped ==
    /\ (last.op = "Write" /\ last.arg[1] \in MappedSet) =>
           Read(Memory, last.arg[1]) = last.arg[2]
    /\ ops <= 1 =>
           /\ \A a \in MappedSet : Read(Write(Memory, a, \h5A), a) = \h5A
           /\ \A a \in RegionEnds, x \in Byte : Read(Write(Memory, a, x), a) = x

\* A Write to the last ROM address over a byte LoadROM or DirectWrite put there.
C16_Witness ==
    /\ last.op = "Write"
    /\ last.arg = <<\h7FFF, \h5A>>
    /\ Read(last.pre.Memory, \h7FFF) = \hFF
    /\ Read(Memory, \h7FFF) = \h5A

\* The echo window.
EchoSet == \hE000 .. \hFDFF

\* The echo addresses whose cell of working memory holds a non-zero byte.
EchoWritten == {\hE000 + j : j \in {k \in DOMAIN Memory.wram : k <= \h1DFF}}

\* C23: in every state reached by Write, LoadROM, DirectWrite, Read and Step
\* calls, Read(e) = Read(e - 0x2000) for the echo addresses e (the probed ones
\* and those holding a non-zero byte in every state, all 7680 after at most one
\* call).
C23_EchoAgreesWithWorkingMemory ==
    /\ \A e \in (ProbeAddrs \cap EchoSet) \cup EchoWritten :
           Read(Memory, e) = Read(Memory, e - \h2000)
    /\ ops <= 1 => \A e \in EchoSet : Read(Memory, e) = Read(Memory, e - \h2000)

\* A Step made after a Write through the echo window stored 0x5A at its end.
C23_Witness ==
    /\ last.op = "Step"
    /\ last.pre.prev.op = "Write"
    /\ Read(Memory, \hFDFF) = \h5A
    /\ Read(Memory, \hDDFF) = \h5A

\* The mirror counterpart of an address of 0xC000-0xDDFF or 0xE000-0xFDFF; any
\* other address has none and is returned itself.
Mirror(a) ==
    IF a >= \hC000 /\ a <= \hDDFF THEN a + \h2000
    ELSE IF a >= \hE000 /\ a <= \hFDFF THEN a - \h2000
    ELSE a

\* The cells of rom, wram and hram in which m1 and m2 differ.
CellsChanged(m1, m2) ==
    {<<"rom", j>> : j \in {k \in DOMAIN m1.rom \cup DOMAIN m2.rom :
                              Index(m1.rom, RomSize, k) # Index(m2.rom, RomSize, k)}}
    \cup {<<"wram", j>> : j \in {k \in DOMAIN m1.wram \cup DOMAIN m2.wram :
                              Index(m1.wram, WramSize, k) # Index(m2.wram, WramSize, k)}}
    \cup {<<"hram", j>> : j \in {k \in DOMAIN m1.hram \cup DOMAIN m2.hram :
                              Index(m1.hram, HramSize, k) # Index(m2.hram, HramSize, k)}}

\* C24: Write(a, x) leaves Read(b) as it was at every address b other than a and
\* a's mirror counterpart, if it has one (at the probed b after every Write, at
\* all b after a first Write), and changes at most one cell of the three
\* arrays; a in 0xDE00-0xDFFF, in ROM or in scratch memory has no counterpart.
C24_WriteTouchesOneByte ==
    last.op = "Write" =>
        LET a == last.arg[1]
            touched == {a, Mirror(a)}
        IN  /\ \A b \in ProbeAddrs \ touched : Read(Memory, b) = Read(last.pre.Memory, b)
            /\ ops <= 1 =>
                   \A b \in Word \ touched : Read(Memory, b) = Read(last.pre.Memory, b)
            /\ Cardinality(CellsChanged(last.pre.Memory, Memory)) <= 1
            /\ (a <= \h7FFF \/ (a >= \hDE00 /\ a <= \hDFFF) \/ (a >= \hFF80 /\ a <= \hFFFE)) =>
                   touched = {a}

\* A Write in the last 512 bytes of working memory, which the echo window does
\* not reach, into an address space that already holds data.
C24_Witness ==
    /\ last.op = "Write"
    /\ last.arg = <<\hDE00, \h5A>>
    /\ last.pre.Memory # NewBasicMemory
    /\ Read(last.pre.Memory, \hDE00) # \h5A
    /\ Read(Memory, \hDE00) = \h5A
    /\ Read(Memory, \hFE00) = \hFF

MaxLoadOps == 2

\* A byte sequence of length n: zero but for its first byte, its last byte and
\* the byte in the middle.
Image(n) ==
    SubSeq([i \in 1 .. n |-> IF i = 1 THEN \hA5 ELSE IF i = n THEN \h5A
                             ELSE IF i = n \div 2 THEN \h3C ELSE \h00], 1, n)

\* Inputs of LoadROM: empty, short (TestLoadROM's program among them), one byte
\* short of the ROM, exactly the ROM's length, and one and two bytes too long.
LoadData ==
    {<<>>, <<\h5A>>, <<\h00, \h3E, \h42, \hC3>>,
     Image(RomSize - 1), Image(RomSize), Image(RomSize + 1), Image(RomSize + 2)}

LoadAddrs == {\h0000, \h0003, \h0004, \h7FFF, \hC000, \hFF80}

LoadLoadROM == ops < MaxLoadOps /\ \E data \in LoadData : DoLoadROM(data)

LoadWrite == ops < MaxLoadOps /\ \E addr \in LoadAddrs : DoWrite(addr, \h77)

NextLoad == LoadLoadROM \/ LoadWrite

SpecLoad == New /\ [][NextLoad]_vars

\* Read(i) = data[i] for every index i of data.
ReadsBack(data) == \A i \in 1 .. Len(data) : Read(Memory, i - 1) = data[i]

\* C7: LoadROM of more than 32768 bytes returns the error, and a LoadROM of at
\* most 32768 bytes that follows a failed one returns nil and its bytes read
\* back from address 0.
C7_OversizedLoadFailsAndNextLoadSucceeds ==
    last.op = "LoadROM" =>
        LET data == last.arg[1]
        IN  /\ Len(data) > 32768 => last.ret = TRUE
            /\ (Len(data) <= 32768 /\ last.pre.prev.op = "LoadROM" /\ last.pre.prev.ret = TRUE) =>
                   (last.ret = FALSE /\ ReadsBack(data))

\* A load of TestLoadROM's program right after a load that failed.
C7_Witness ==
    /\ last.op = "LoadROM"
    /\ last.arg[1] = <<\h00, \h3E, \h42, \hC3>>
    /\ last.pre.prev.op = "LoadROM"
    /\ last.pre.prev.ret = TRUE
    /\ last.ret = FALSE
    /\ Read(Memory, 3) = \hC3

\* C8: for every data of length 0 .. 32768, LoadROM(data) returns nil and
\* afterwards Read(i) = data[i] for every i < len(data).
C8_LoadCopiesUpToCapacity ==
    (last.op = "LoadROM" /\ Len(last.arg[1]) <= 32768) =>
        (last.ret = FALSE /\ ReadsBack(last.arg[1]))

\* A load of exactly 32768 bytes over a ROM that held other bytes, whose last
\* byte reads back at 0x7FFF.
C8_Witness ==
    /\ last.op = "LoadROM"
    /\ Len(last.arg[1]) = 32768
    /\ last.ret = FALSE
    /\ Read(last.pre.Memory, \h7FFF) = \h77
    /\ Read(Memory, \h7FFF) = \h5A

\* C34: a LoadROM of more than 32768 bytes returns the error and leaves the
\* address space as it was: Read returns what it returned before the call at
\* the probed addresses in every state and at all 65536 addresses after at most
\* two calls.
C34_FailedLoadChangesNothing ==
    (last.op = "LoadROM" /\ Len(last.arg[1]) > 32768) =>
        /\ last.ret = TRUE
        /\ Memory = last.pre.Memory
        /\ \A a \in ProbeAddrs \cup LoadAddrs : Read(Memory, a) = Read(last.pre.Memory, a)
        /\ ops <= 2 => \A a \in Word : Read(Memory, a) = Read(last.pre.Memory, a)

\* A failed load of 32769 bytes over a ROM whose first byte had been written.
C34_Witness ==
    /\ last.op = "LoadROM"
    /\ Len(last.arg[1]) = 32769
    /\ last.ret = TRUE
    /\ last.pre.prev.op = "Write"
    /\ Read(last.pre.Memory, \h0000) = \h77
    /\ Read(Memory, \h0000) = \h77

\* The addresses a successful LoadROM(data) does not copy to: the ROM addresses
\* from len(data) on and every address outside the ROM.
Beyond(data) == {a \in Word : a >= Len(data) \/ a > \h7FFF}

\* C35: after a LoadROM(data) that returned nil, Read returns what it returned
\* before the call at every ROM address i with len(data) <= i <= 0x7FFF and at
\* every address outside the ROM (at the probed ones in every state, at all of
\* them after at most two calls).
C35_LoadKeepsTheRest ==
    (last.op = "LoadROM" /\ last.ret = FALSE) =>
        LET data == last.arg[1]
        IN  /\ \A a \in (ProbeAddrs \cup LoadAddrs) \cap Beyond(data) :
                   Read(Memory, a) = Read(last.pre.Memory, a)
            /\ ops <= 2 => \A a \in Beyond(data) : Read(Memory, a) = Read(last.pre.Memory, a)

\* A load of one byte over a loaded program of 32768 bytes, whose last byte
\* still reads at 0x7FFF.
C35_Witness ==
    /\ last.op = "LoadROM"
    /\ last.arg[1] = <<\h5A>>
    /\ last.ret = FALSE
    /\ last.pre.prev.op = "LoadROM"
    /\ Read(last.pre.Memory, \h0000) = \hA5
    /\ Read(last.pre.Memory, \h7FFF) = \h5A
    /\ Read(Memory, \h0000) = \h5A
    /\ Read(Memory, \h4000 - 1) = \h3C
    /\ Read(Memory, \h7FFF) = \h5A

\* ------------------------------------------------------------ one instruction from any state

\* The Step calls made in SpecStep.
MaxSteps == 2

\* Register files a Step starts from: the power-on one, the post-boot one of
\* NewRegisters' comment, one whose A + B carries out of both nibbles, and one
\* with bits set in the low nibble of F (as SetFlag(0x0F, true) or an assignment
\* to the exported field leaves them).
StepFiles ==
    {NewRegisters,
     [A |-> \h01, F |-> \hB0, B |-> \h00, C |-> \h13, D |-> \h00, E |-> \hD8,
      H |-> \h01, L |-> \h4D, SP |-> \hFFFE, PC |-> \h0100],
     [A |-> \hFF, F |-> \h40, B |-> \h01, C |-> \h7E, D |-> \hD1, E |-> \hE1,
      H |-> \hC0, L |-> \h80, SP |-> \hDFF0, PC |-> \h0000],
     [A |-> \h3A, F |-> \h4F, B |-> \hC6, C |-> \h5C, D |-> \h6B, E |-> \h7A,
      H |-> \hFF, L |-> \h80, SP |-> \h0000, PC |-> \h0000]}

\* Where the instruction lies: in ROM, at the ends of ROM, in working memory and
\* its echo, in scratch memory, and where PC or the operand addresses wrap.
StepPCs == {\h0000, \h0100, \h7FFE, \h7FFF, \hC000, \hFDFE, \hFFFD, \hFFFE, \hFFFF}

StepLows == {\h50, \hFF}
StepHighs == {\h01, \h80}

\* The address space after the three bytes are written at pc, pc+1, pc+2.
Placed(pc, b0, b1, b2) ==
    Write(Write(Write(NewBasicMemory, pc, b0), uint16(pc + 1), b1), uint16(pc + 2), b2)

InitStep ==
    \E file \in StepFiles, pc \in StepPCs, opcode \in Byte, lo \in StepLows, hi \in StepHighs,
       halted \in BOOLEAN :
        Start([NewCPU(Placed(pc, opcode, lo, hi)) EXCEPT
                  !.Registers = [file EXCEPT !.PC = pc], !.Halted = halted])

StepStep == Len(returned) < MaxSteps /\ DoStep

NextStep == StepStep

SpecStep == InitStep /\ [][NextStep]_vars

\* The byte at address pc + k (mod 2^16) when the last call started.
ByteAtPC(k) == Read(last.pre.Memory, uint16(last.pre.Registers.PC + k))

\* The last call was a Step of a running core.
SteppedRunning == last.op = "Step" /\ ~last.pre.Halted

Implemented == {\h00, \h06, \h0E, \h3E, \h78, \h79, \h80, \hC3}

\* C1: on a running core, a Step on NOP or on any of the 248 unassigned opcodes
\* returns 4, advances PC by 1 (mod 2^16) and leaves every other register, the
\* Halted flag and the address space unchanged.
C1_UnassignedOpcodeIsNop ==
    (SteppedRunning /\ ByteAtPC(0) \notin (Implemented \ {\h00})) =>
        /\ last.ret = 4
        /\ Registers.PC = (last.pre.Registers.PC + 1) % 65536
        /\ Registers = [last.pre.Registers EXCEPT !.PC = Registers.PC]
        /\ Halted = last.pre.Halted
        /\ Memory = last.pre.Memory

\* A Step on the unassigned 0x7B with A and B different.
C1_Witness ==
    /\ SteppedRunning
    /\ ByteAtPC(0) = \h7B
    /\ last.pre.Registers.A # last.pre.Registers.B
    /\ last.pre.Registers.PC = \h7FFF
    /\ Registers.PC = \h8000

\* C10: on a running core with 0xC3 at PC, lo at PC+1 and hi at PC+2 (mod 2^16),
\* a Step returns 16 and sets PC to hi * 256 + lo, leaving the other registers
\* and the address space unchanged; [0xC3, 0x50, 0x01] at 0 jumps to 0x0150.
C10_JumpLittleEndian ==
    (SteppedRunning /\ ByteAtPC(0) = \hC3) =>
        /\ last.ret = 16
        /\ Registers.PC = ByteAtPC(2) * 256 + ByteAtPC(1)
        /\ Registers = [last.pre.Registers EXCEPT !.PC = Registers.PC]
        /\ Memory = last.pre.Memory
        /\ (last.pre.Memory = LoadROM(NewBasicMemory, <<\hC3, \h50, \h01>>).mem
              /\ last.pre.Registers.PC = 0) => Registers.PC = \h0150

\* TestOpJP_nn's jump: [0xC3, 0x50, 0x01] at 0 taken to 0x0150.
C10_Witness ==
    /\ SteppedRunning
    /\ last.pre.Memory = LoadROM(NewBasicMemory, <<\hC3, \h50, \h01>>).mem
    /\ last.pre.Registers.PC = 0
    /\ last.ret = 16
    /\ Registers.PC = \h0150

\* The register LD r, n loads, by opcode.
LoadTarget(opcode) ==
    CASE opcode = \h3E -> "A"
      [] opcode = \h06 -> "B"
      [] opcode = \h0E -> "C"

\* C11: on a running core with 0x3E, 0x06 or 0x0E at PC, a Step returns 8, sets
\* the opcode's register (A, B, C) to the byte at PC+1 (mod 2^16), advances PC by
\* 2 (mod 2^16) and leaves F and every other register unchanged.
C11_LoadImmediate ==
    (SteppedRunning /\ ByteAtPC(0) \in {\h3E, \h06, \h0E}) =>
        /\ last.ret = 8
        /\ Registers[LoadTarget(ByteAtPC(0))] = ByteAtPC(1)
        /\ Registers.PC = (last.pre.Registers.PC + 2) % 65536
        /\ Registers.F = last.pre.Registers.F
        /\ Registers = [last.pre.Registers EXCEPT ![LoadTarget(ByteAtPC(0))] = ByteAtPC(1),
                                                  !.PC = Registers.PC]

\* LD A, 0x50 at 0x0100 over A = 0x01 and F = 0xB0.
C11_Witness ==
    /\ SteppedRunning
    /\ ByteAtPC(0) = \h3E
    /\ ByteAtPC(1) = \h50
    /\ last.pre.Registers.A = \h01
    /\ last.pre.Registers.F = \hB0
    /\ last.ret = 8
    /\ Registers.A = \h50
    /\ Registers.PC = \h0102

\* C12: on a running core with 0x78 (0x79) at PC, a Step returns 4, advances PC
\* by 1 (mod 2^16), sets A to B (to C) and leaves B, C, F and every other
\* register unchanged.
C12_LoadAFromRegister ==
    /\ (SteppedRunning /\ ByteAtPC(0) = \h78) =>
           /\ last.ret = 4
           /\ Registers = [last.pre.Registers EXCEPT !.A = last.pre.Registers.B,
                                                     !.PC = (@ + 1) % 65536]
    /\ (SteppedRunning /\ ByteAtPC(0) = \h79) =>
           /\ last.ret = 4
           /\ Registers = [last.pre.Registers EXCEPT !.A = last.pre.Registers.C,
                                                     !.PC = (@ + 1) % 65536]

\* LD A, C at 0x0100 with A = 0x01, B = 0x00 and C = 0x13.
C12_Witness ==
    /\ SteppedRunning
    /\ ByteAtPC(0) = \h79
    /\ last.pre.Registers.A = \h01
    /\ last.pre.Registers.B = \h00
    /\ last.pre.Registers.C = \h13
    /\ Registers.A = \h13
    /\ Registers.C = \h13
    /\ Registers.PC = \h0101

\* C13: a Step of a halted core returns 4, reads no byte, and leaves the
\* registers, Halted, TotalCycles and the address space as they were; so a core
\* halted from the start has returned 4 from every Step and accrued nothing.
C13_HaltedStepDoesNothing ==
    /\ (last.op = "Step" /\ last.pre.Halted) =>
           /\ last.ret = 4
           /\ last.reads = <<>>
           /\ Registers = last.pre.Registers
           /\ Halted = last.pre.Halted
           /\ TotalCycles = last.pre.TotalCycles
           /\ Memory = last.pre.Memory
    /\ Halted =>
           /\ \A i \in DOMAIN returned : returned[i] = 4
           /\ TotalCycles = 0

\* The second Step of a halted core whose PC is on a JP.
C13_Witness ==
    /\ last.op = "Step"
    /\ last.pre.Halted
    /\ Len(returned) = 2
    /\ ByteAtPC(0) = \hC3
    /\ Registers.PC = \h0100
    /\ TotalCycles = 0

\* The values a register file can hold: eight uint8 and two uint16 fields.
RegistersType ==
    [A : Byte, F : Byte, B : Byte, C : Byte, D : Byte, E : Byte, H : Byte, L : Byte,
     SP : Word, PC : Word]

\* C17: from every register file, running or halted, and every address space, a
\* Step completes: it returns a cycle cost, leaves a register file within its
\* widths and the address space as it was, has read only addresses of the
\* 16-bit range and got a byte from each (no array indexed out of bounds), and
\* another Step can follow.
C17_StepIsTotal ==
    /\ last.op = "Step" =>
           /\ last.ret \in {4, 8, 16}
           /\ Registers \in RegistersType
           /\ Halted \in BOOLEAN
           /\ TotalCycles \in Nat
           /\ \A i \in DOMAIN last.reads :
                  /\ last.reads[i] \in Word
                  /\ Read(last.pre.Memory, last.reads[i]) \in Byte
           /\ Memory = last.pre.Memory
    /\ ENABLED DoStep

\* A Step with PC on the unmapped 0xFFFF: 0xFF is fetched and PC wraps to 0.
C17_Witness ==
    /\ SteppedRunning
    /\ last.pre.Registers.PC = \hFFFF
    /\ last.reads = <<\hFFFF>>
    /\ ByteAtPC(0) = \hFF
    /\ last.ret = 4
    /\ Registers.PC = \h0000

\* seq[1] + ... + seq[Len(seq)]
RECURSIVE Sum(_)
Sum(seq) == IF seq = <<>> THEN 0 ELSE Head(seq) + Sum(Tail(seq))

\* C18: a Step of a running core returns the Cycles of the table entry of the
\* byte at PC and adds that amount to TotalCycles; on a core that is not
\* halted, TotalCycles is the sum of the values Step has returned.
C18_CyclesAccrue ==
    /\ SteppedRunning =>
           /\ last.ret = opcodeTable[ByteAtPC(0)].Cycles
           /\ TotalCycles = last.pre.TotalCycles + last.ret
    /\ ~Halted => TotalCycles = Sum(returned)

\* A 4-cycle ADD after an 8-cycle LD: 12 cycles in all.
C18_Witness ==
    /\ SteppedRunning
    /\ returned = <<8, 4>>
    /\ ByteAtPC(0) = \h80
    /\ last.pre.TotalCycles = 8
    /\ TotalCycles = 12

\* C25: a Step of a running core reads as many bytes as the Bytes of the table
\* entry of the byte at PC (1, 2 or 3), at PC, PC+1, ... (mod 2^16) in that
\* order, and for every opcode but JP nn leaves PC at PC + Bytes (mod 2^16).
C25_FetchesDeclaredLength ==
    SteppedRunning =>
        LET pc0 == last.pre.Registers.PC
            bytes == opcodeTable[ByteAtPC(0)].Bytes
        IN  /\ bytes \in {1, 2, 3}
            /\ Len(last.reads) = bytes
            /\ \A i \in 1 .. bytes : last.reads[i] = (pc0 + i - 1) % 65536
            /\ ByteAtPC(0) # \hC3 => Registers.PC = (pc0 + bytes) % 65536

\* A JP at 0xFFFE, whose operand bytes are read at 0xFFFF and 0x0000.
C25_Witness ==
    /\ SteppedRunning
    /\ ByteAtPC(0) = \hC3
    /\ last.reads = <<\hFFFE, \hFFFF, \h0000>>

\* C27: a Step of a running core on 0x80 returns 4, adds 4 to TotalCycles,
\* advances PC by 1 (mod 2^16), and leaves B, C, D, E, H, L, SP, the low nibble
\* of F and the address space unchanged.
C27_AddFrame ==
    (SteppedRunning /\ ByteAtPC(0) = \h80) =>
        /\ last.ret = 4
        /\ TotalCycles = last.pre.TotalCycles + 4
        /\ Registers = [last.pre.Registers EXCEPT !.A = Registers.A, !.F = Registers.F,
                                                  !.PC = (@ + 1) % 65536]
        /\ Registers.F % 16 = last.pre.Registers.F % 16
        /\ Memory = last.pre.Memory

\* 0x3A + 0xC6 with F = 0x4F before: A = 0x00 and F = 0xBF after.
C27_Witness ==
    /\ SteppedRunning
    /\ ByteAtPC(0) = \h80
    /\ last.pre.Registers.A = \h3A
    /\ last.pre.Registers.B = \hC6
    /\ last.pre.Registers.F = \h4F
    /\ Registers.A = \h00
    /\ Registers.F = \hBF
    /\ Registers.B = \hC6

\* C29: a Step, of a running or a halted core, leaves the address space as it
\* was, so that Read returns what it returned before at every address; a call
\* after which the address space differs is a Write, a DirectWrite or a LoadROM.
C29_StepNeverWrites ==
    /\ last.op = "Step" =>
           /\ Memory = last.pre.Memory
           /\ CellsChanged(last.pre.Memory, Memory) = {}
           /\ \A k \in 0 .. 2 : Read(Memory, uint16(last.pre.Registers.PC + k)) = ByteAtPC(k)
    /\ Memory # last.pre.Memory => last.op \in {"Write", "DirectWrite", "LoadROM"}

\* A Step on LD A, B in working memory, with A = 0xFF and HL pointing into
\* working memory as well.
C29_Witness ==
    /\ SteppedRunning
    /\ ByteAtPC(0) = \h78
    /\ last.pre.Registers.PC = \hC000
    /\ last.pre.Registers.A = \hFF
    /\ HL(Registers) = \hC080
    /\ Memory = last.pre.Memory
    /\ Read(Memory, \hC080) = \h00

\* C32: a Step of a running core with PC = 0xFFFF reads 0xFF there, whatever
\* has been written to that address, returns 4 and leaves PC = 0x0000 and every
\* other register unchanged; an operand fetch that follows a fetch at 0xFFFF
\* reads at 0x0000, and one at 0xFFFF leaves PC at 0x0000 (before a JP's jump).
C32_PCWraps ==
    /\ (SteppedRunning /\ last.pre.Registers.PC = \hFFFF) =>
           /\ last.reads = <<\hFFFF>>
           /\ ByteAtPC(0) = \hFF
           /\ opcodeTable[ByteAtPC(0)].Execute = "opUnknown"
           /\ last.ret = 4
           /\ Registers = [last.pre.Registers EXCEPT !.PC = \h0000]
    /\ SteppedRunning =>
           /\ \A i \in 1 .. Len(last.reads) - 1 :
                  last.reads[i] = \hFFFF => last.reads[i + 1] = \h0000
           /\ (last.reads[Len(last.reads)] = \hFFFF /\ ByteAtPC(0) # \hC3) =>
                  Registers.PC = \h0000

\* LD A, n at 0xFFFE: the operand is read at 0xFFFF and PC wraps to 0x0000.
C32_Witness ==
    /\ SteppedRunning
    /\ ByteAtPC(0) = \h3E
    /\ last.reads = <<\hFFFE, \hFFFF>>
    /\ last.pre.Registers.A # \hFF
    /\ Registers.A = \hFF
    /\ Registers.PC = \h0000

\* ------------------------------------------------------------ ADD A, B on every pair of operands

\* The Step calls made in SpecAdd.
MaxAddSteps == 1

\* The sixteen values of F with the low nibble zero.
FlagBytes == {16 * f : f \in 0 .. 15}

\* Operands at the nibble and byte carries.
AddOperands == {\h00, \h01, \h0F, \h10, \h7F, \h80, \hF0, \hFF}

\* ADD A, B at address 0 of a fresh address space. A and B are any two bytes
\* with the four flags all clear or all set before, and any two of AddOperands
\* with any of the sixteen flag values before.
InitAdd ==
    \E a \in Byte, b \in Byte, f \in FlagBytes :
        /\ f \in {\h00, \hF0} \/ (a \in AddOperands /\ b \in AddOperands)
        /\ Start([NewCPU(LoadROM(NewBasicMemory, <<\h80>>).mem) EXCEPT
                      !.Registers = [NewRegisters EXCEPT !.A = a, !.B = b, !.F = f]])

AddStep == Len(returned) < MaxAddSteps /\ DoStep

NextAdd == AddStep

SpecAdd == InitAdd /\ [][NextAdd]_vars

\* The flags a, b must leave after ADD A, B.
AddFlagLaw(r, a, b) ==
    /\ GetFlagZ(r) = ((a + b) % 256 = 0)
    /\ GetFlagN(r) = FALSE
    /\ GetFlagH(r) = ((a % 16) + (b % 16) > 15)
    /\ GetFlagC(r) = (a + b > 255)

\* C2: whatever the four flags held before, a Step on 0x80 with a in A and b in
\* B leaves A = (a+b) mod 256, Z = (A = 0), N = false, H = carry out of bit 3,
\* C = carry out of bit 7.
C2_AddFlagLaw ==
    (SteppedRunning /\ ByteAtPC(0) = \h80) =>
        LET a == last.pre.Registers.A
            b == last.pre.Registers.B
        IN  /\ Registers.A = (a + b) % 256
            /\ AddFlagLaw(Registers, a, b)

\* 0xFF + 0x01 with N and nothing else set before: Z, H, C set and N cleared.
C2_Witness ==
    /\ SteppedRunning
    /\ ByteAtPC(0) = \h80
    /\ last.pre.Registers.A = \hFF
    /\ last.pre.Registers.B = \h01
    /\ last.pre.Registers.F = FlagN
    /\ Registers.A = 0
    /\ Registers.F = \hB0

\* ------------------------------------------------------------ load, load, add

\* The Step calls made in SpecE2E.
MaxE2ESteps == 3

\* LD A, a; LD B, b; ADD A, B
Program(a, b) == <<\h3E, a, \h06, b, \h80>>

\* On a fresh address space and CPU, the program is loaded ...
E2ELoad == last.op = "New" /\ \E a \in Byte, b \in Byte : DoLoadROM(Program(a, b))

\* ... and stepped.
E2EStep == last.op # "New" /\ Len(returned) < MaxE2ESteps /\ DoStep

NextE2E == E2ELoad \/ E2EStep

SpecE2E == New /\ [][NextE2E]_vars

\* C9: after LoadROM([0x3E, a, 0x06, b, 0x80]) on a fresh address space and CPU,
\* the first three Steps return 8, 8, 4, leave PC at 2, 4, 5, and end with
\* A = (a+b) mod 256, B = b and the flags of the ADD flag law; 0x05 + 0x03 ends
\* with A = 0x08 and no flag, 0xFF + 0x01 with A = 0x00 and Z, H, C but not N.
C9_LoadLoadAdd ==
    LET n == Len(returned)
        a == Read(Memory, 1)
        b == Read(Memory, 3)
    IN  (last.op = "Step" /\ n <= 3
           /\ Memory = LoadROM(NewBasicMemory, Program(a, b)).mem) =>
            /\ returned = SubSeq(<<8, 8, 4>>, 1, n)
            /\ Registers.PC = <<2, 4, 5>>[n]
            /\ n = 3 =>
                /\ Registers.A = (a + b) % 256
                /\ Registers.B = b
                /\ AddFlagLaw(Registers, a, b)
                /\ (a = \h05 /\ b = \h03) =>
                       (Registers.A = \h08 /\ Registers.B = \h03 /\ Registers.F = 0)
                /\ (a = \hFF /\ b = \h01) =>
                       /\ Registers.A = \h00
                       /\ GetFlagZ(Registers) /\ GetFlagH(Registers) /\ GetFlagC(Registers)
                       /\ ~GetFlagN(Registers)

\* Scenario B after its third Step.
C9_Witness ==
    /\ last.op = "Step"
    /\ Memory = LoadROM(NewBasicMemory, <<\h3E, \hFF, \h06, \h01, \h80>>).mem
    /\ returned = <<8, 8, 4>>
    /\ Registers.PC = 5
    /\ Registers.A = 0
    /\ Registers.B = 1
    /\ Registers.F = \hB0

\* ------------------------------------------------------------ register pairs

\* Register files a pair is set in: the power-on one, the post-boot one, and two
\* with every register distinct (one with bits set in the low nibble of F, as
\* an assignment to the exported field leaves them).
PairFiles ==
    {NewRegisters,
     [A |-> \h01, F |-> \hB0, B |-> \h00, C |-> \h13, D |-> \h00, E |-> \hD8,
      H |-> \h01, L |-> \h4D, SP |-> \hFFFE, PC |-> \h0100],
     [A |-> \hA1, F |-> \h50, B |-> \hB2, C |-> \hC3, D |-> \hD4, E |-> \hE5,
      H |-> \h86, L |-> \h97, SP |-> \hDFF0, PC |-> \h1234],
     [A |-> \h1E, F |-> \h2F, B |-> \h3D, C |-> \h4C, D |-> \h5B, E |-> \h6A,
      H |-> \h79, L |-> \h88, SP |-> \hC123, PC |-> \hFFFF]}

InitPairs ==
    \E file \in PairFiles : Start([NewCPU(NewBasicMemory) EXCEPT !.Registers = file])

\* One setter call on the register file, with any 16-bit value.
PairSetAF == last.op = "New" /\ \E v \in Word : DoRegs("SetAF", <<v>>, SetAF(Registers, v))
PairSetBC == last.op = "New" /\ \E v \in Word : DoRegs("SetBC", <<v>>, SetBC(Registers, v))
PairSetDE == last.op = "New" /\ \E v \in Word : DoRegs("SetDE", <<v>>, SetDE(Registers, v))
PairSetHL == last.op = "New" /\ \E v \in Word : DoRegs("SetHL", <<v>>, SetHL(Registers, v))

NextPairs == PairSetAF \/ PairSetBC \/ PairSetDE \/ PairSetHL

SpecPairs == InitPairs /\ [][NextPairs]_vars

\* C4: for every 16-bit v, BC() after SetBC(v), DE() after SetDE(v) and HL()
\* after SetHL(v) are v, and AF() after SetAF(v) is v with its low four bits
\* cleared.
C4_PairRoundTrip ==
    /\ last.op = "SetBC" => BC(Registers) = last.arg[1]
    /\ last.op = "SetDE" => DE(Registers) = last.arg[1]
    /\ last.op = "SetHL" => HL(Registers) = last.arg[1]
    /\ last.op = "SetAF" => AF(Registers) = last.arg[1] - (last.arg[1] % 16)

\* TestFRegisterMasking's call: SetAF(0x12FF) read back as 0x12F0.
C4_Witness ==
    /\ last.op = "SetAF"
    /\ last.arg[1] = \h12FF
    /\ AF(Registers) = \h12F0

\* BC(), DE(), HL() and AF() are the two registers of the pair, high byte first.
PairsAreViews ==
    /\ BC(Registers) = Registers.B * 256 + Registers.C
    /\ DE(Registers) = Registers.D * 256 + Registers.E
    /\ HL(Registers) = Registers.H * 256 + Registers.L
    /\ AF(Registers) = Registers.A * 256 + Registers.F

\* SetBC, SetDE and SetHL store the high byte of the value in the first register
\* of the pair and the low byte in the second, and nothing else.
PairsWriteThrough ==
    LET v == last.arg[1]
        r == last.pre.Registers
    IN  /\ last.op = "SetBC" => Registers = [r EXCEPT !.B = v \div 256, !.C = v % 256]
        /\ last.op = "SetDE" => Registers = [r EXCEPT !.D = v \div 256, !.E = v % 256]
        /\ last.op = "SetHL" => Registers = [r EXCEPT !.H = v \div 256, !.L = v % 256]

\* C21 as stated: in every state each pair getter is (high << 8) | low of its two
\* registers, and SetBC, SetDE, SetHL and SetAF each store the high byte of the
\* value in the first register of the pair and the low byte in the second,
\* changing no other register.
C21_SetAFStoresLowByte ==
    /\ PairsAreViews
    /\ PairsWriteThrough
    /\ last.op = "SetAF" =>
           Registers = [last.pre.Registers EXCEPT !.A = last.arg[1] \div 256,
                                                  !.F = last.arg[1] % 256]

\* C21 amended: as stated for the getters and for SetBC, SetDE and SetHL; SetAF
\* stores the high byte of the value in A and the low byte with its low four
\* bits cleared in F, changing no other register.
C21_SetAFStoresMaskedLowByte ==
    /\ PairsAreViews
    /\ PairsWriteThrough
    /\ last.op = "SetAF" =>
           Registers = [last.pre.Registers EXCEPT
                           !.A = last.arg[1] \div 256,
                           !.F = (last.arg[1] % 256) - (last.arg[1] % 16)]

\* TestRegisterPairs' SetBC(0xABCD), made on a file whose registers all differ.
C21_Witness ==
    /\ last.op = "SetBC"
    /\ last.arg[1] = \hABCD
    /\ last.pre.Registers.B = \h3D
    /\ last.pre.Registers.F = \h2F
    /\ Registers.B = \hAB
    /\ Registers.C = \hCD
    /\ AF(Registers) = \h1E2F
    /\ Registers.SP = \hC123

\* ------------------------------------------------------------ the register file's mutators and Step

\* The calls made in SpecRegs.
MaxRegOps == 3

\* 16-bit values given to the pair setters (those of the register tests among them).
RegWords == {\h0000, \h0100, \h12FF, \hABCD, \hFFFF}

\* Masks given to SetFlag: the four flags, none, and masks reaching below bit 4.
RegMasks == {FlagZ, FlagN, FlagH, FlagC, \h00, \h01, \h0F, \hF0, \hFF}

RegSetAF == ops < MaxRegOps /\ \E v \in RegWords : DoRegs("SetAF", <<v>>, SetAF(Registers, v))
RegSetBC == ops < MaxRegOps /\ \E v \in RegWords : DoRegs("SetBC", <<v>>, SetBC(Registers, v))
RegSetDE == ops < MaxRegOps /\ \E v \in RegWords : DoRegs("SetDE", <<v>>, SetDE(Registers, v))
RegSetHL == ops < MaxRegOps /\ \E v \in RegWords : DoRegs("SetHL", <<v>>, SetHL(Registers, v))

RegSetFlag ==
    ops < MaxRegOps /\ \E flag \in RegMasks, value \in BOOLEAN :
        DoRegs("SetFlag", <<flag, value>>, SetFlag(Registers, flag, value))

RegSetFlagZ ==
    ops < MaxRegOps /\ \E value \in BOOLEAN :
        DoRegs("SetFlagZ", <<value>>, SetFlagZ(Registers, value))

RegSetFlagN ==
    ops < MaxRegOps /\ \E value \in BOOLEAN :
        DoRegs("SetFlagN", <<value>>, SetFlagN(Registers, value))

RegSetFlagH ==
    ops < MaxRegOps /\ \E value \in BOOLEAN :
        DoRegs("SetFlagH", <<value>>, SetFlagH(Registers, value))

RegSetFlagC ==
    ops < MaxRegOps /\ \E value \in BOOLEAN :
        DoRegs("SetFlagC", <<value>>, SetFlagC(Registers, value))

RegSetFlags ==
    ops < MaxRegOps /\ \E z \in BOOLEAN, n \in BOOLEAN, h \in BOOLEAN, c \in BOOLEAN :
        DoRegs("SetFlags", <<z, n, h, c>>, SetFlags(Registers, z, n, h, c))

RegStep == ops < MaxRegOps /\ DoStep

\* A newly constructed CPU on an address space holding scenario B's program.
InitRegs == Start(NewCPU(LoadROM(NewBasicMemory, Program(\hFF, \h01)).mem))

NextRegs ==
    \/ RegSetAF \/ RegSetBC \/ RegSetDE \/ RegSetHL
    \/ RegSetFlag \/ RegSetFlagZ \/ RegSetFlagN \/ RegSetFlagH \/ RegSetFlagC
    \/ RegSetFlags \/ RegStep

SpecRegs == InitRegs /\ [][NextRegs]_vars

\* C3: after any sequence of SetAF, SetFlags, SetFlagZ/N/H/C, SetFlag(mask, value)
\* with any 8-bit mask, and Step calls from power-on, the low nibble of F is zero.
C3_LowNibbleOfFIsZero == Registers.F % 16 = 0

\* C14: a newly constructed CPU has A, F, B, C, D, E, H, L zero, the four flags
\* false, SP = 0xFFFE, PC = 0x0000, Halted false and TotalCycles 0.
C14_PowerOnState ==
    ops = 0 =>
        /\ \A reg \in {"A", "F", "B", "C", "D", "E", "H", "L"} : Registers[reg] = 0
        /\ ~GetFlagZ(Registers) /\ ~GetFlagN(Registers)
        /\ ~GetFlagH(Registers) /\ ~GetFlagC(Registers)
        /\ Registers.SP = \hFFFE
        /\ Registers.PC = \h0000
        /\ Halted = FALSE
        /\ TotalCycles = 0

\* The CPU NewCPU has just returned, no call made on it yet.
C14_Witness ==
    /\ last.op = "New"
    /\ ops = 0
    /\ returned = <<>>
    /\ AF(Registers) = 0 /\ BC(Registers) = 0 /\ DE(Registers) = 0 /\ HL(Registers) = 0
    /\ Registers.SP = \hFFFE
    /\ Registers.PC = \h0000
    /\ ~Halted

\* The flag mask of each individual setter.
FlagOf(op) ==
    CASE op = "SetFlagZ" -> FlagZ
      [] op = "SetFlagN" -> FlagN
      [] op = "SetFlagH" -> FlagH
      [] op = "SetFlagC" -> FlagC

\* C19: after SetFlagZ, SetFlagN, SetFlagH or SetFlagC with value v, the flag's
\* getter returns v, the other three getters return what they returned before,
\* and every register but F is unchanged.
C19_FlagSettersIndependent ==
    last.op \in {"SetFlagZ", "SetFlagN", "SetFlagH", "SetFlagC"} =>
        /\ GetFlag(Registers, FlagOf(last.op)) = last.arg[1]
        /\ \A flag \in {FlagZ, FlagN, FlagH, FlagC} \ {FlagOf(last.op)} :
               GetFlag(Registers, flag) = GetFlag(last.pre.Registers, flag)
        /\ Registers = [last.pre.Registers EXCEPT !.F = Registers.F]
        /\ (last.op = "SetFlagC" /\ last.arg[1] /\ GetFlagZ(last.pre.Registers)) =>
               GetFlagZ(Registers)
        /\ (last.op = "SetFlagZ" /\ ~last.arg[1] /\ GetFlagC(last.pre.Registers)) =>
               GetFlagC(Registers)

\* TestFlags' third call: Z cleared while C is set, after Z and C were set.
C19_Witness ==
    /\ last.op = "SetFlagZ"
    /\ last.arg = <<FALSE>>
    /\ last.pre.prev.op = "SetFlagC"
    /\ last.pre.Registers.F = \h90
    /\ Registers.F = \h10
    /\ ~GetFlagZ(Registers)
    /\ GetFlagC(Registers)

\* 1 for true, 0 for false.
Bit(v) == IF v THEN 1 ELSE 0

\* C20: whatever F held, after SetFlags(z, n, h, c) the four getters return z,
\* n, h, c and F = 0x80*z + 0x40*n + 0x20*h + 0x10*c; with A = 0x01 and
\* SetFlags(true, false, true, true), AF() is 0x01B0.
C20_SetFlagsOverwrites ==
    last.op = "SetFlags" =>
        LET z == last.arg[1]
            n == last.arg[2]
            h == last.arg[3]
            c == last.arg[4]
        IN  /\ GetFlagZ(Registers) = z
            /\ GetFlagN(Registers) = n
            /\ GetFlagH(Registers) = h
            /\ GetFlagC(Registers) = c
            /\ Registers.F = 128 * Bit(z) + 64 * Bit(n) + 32 * Bit(h) + 16 * Bit(c)
            /\ (Registers.A = \h01 /\ last.arg = <<TRUE, FALSE, TRUE, TRUE>>) =>
                   AF(Registers) = \h01B0

\* TestAFPair's call, made with every bit of F set before.
C20_Witness ==
    /\ last.op = "SetFlags"
    /\ last.arg = <<TRUE, FALSE, TRUE, TRUE>>
    /\ last.pre.Registers.F = \hFF
    /\ Registers.A = \h01
    /\ AF(Registers) = \h01B0

\* ------------------------------------------------------------ runs from power-on

\* The Step calls made in SpecRun.
MaxRunSteps == 3

\* Where the instruction under test lies.
RunPCs == {\h0000, \h0003, \h0100, \h7FFF, \hC000, \hFDFE, \hFFFE, \hFFFF}

\* The address space with the three bytes at pc and, unless pc is 0, a JP pc at
\* address 0 that takes a newly constructed CPU there.
RunImage(pc, b0, b1, b2) ==
    IF pc = 0 THEN Placed(pc, b0, b1, b2)
    ELSE Write(Write(Write(Placed(pc, b0, b1, b2), 0, \hC3), 1, pc % 256), 2, pc \div 256)

\* A newly constructed CPU on such an address space, or on one holding LD A, a;
\* LD B, b; ADD A, B with operands at the nibble and byte carries.
InitRun ==
    \/ \E pc \in RunPCs, opcode \in Byte, lo \in StepLows, hi \in StepHighs :
           Start(NewCPU(RunImage(pc, opcode, lo, hi)))
    \/ \E a \in AddOperands, b \in AddOperands :
           Start(NewCPU(LoadROM(NewBasicMemory, Program(a, b)).mem))

RunStep == Len(returned) < MaxRunSteps /\ DoStep

NextRun == RunStep

SpecRun == InitRun /\ [][NextRun]_vars

\* C22: from a newly constructed CPU, whatever the address space holds and
\* however many Steps are made, Halted is false.
C22_NeverHalted == Halted = FALSE

\* A Step on 0x76, the opcode of HALT on the hardware, that left the core running.
C22_Witness ==
    /\ SteppedRunning
    /\ ByteAtPC(0) = \h76
    /\ last.pre.Registers.PC = \hC000
    /\ Len(returned) = 2
    /\ ~Halted

\* C30: from a newly constructed CPU, whatever the address space holds and
\* however many Steps are made, SP is 0xFFFE and D, E, H, L are 0, so DE() and
\* HL() are 0.
C30_UntouchedRegistersKeepPowerOn ==
    /\ Registers.SP = \hFFFE
    /\ Registers.D = 0 /\ Registers.E = 0 /\ Registers.H = 0 /\ Registers.L = 0
    /\ DE(Registers) = 0
    /\ HL(Registers) = 0

\* Three Steps, a JP, a load of B and an ADD, that changed A, B and PC.
C30_Witness ==
    /\ last.op = "Step"
    /\ returned = <<16, 8, 4>>
    /\ Registers.A = \hFF
    /\ Registers.B = \hFF
    /\ Registers.F = \h00
    /\ Registers.PC = \h0103
    /\ Registers.SP = \hFFFE
    /\ DE(Registers) = 0
    /\ HL(Registers) = 0

\* C31: from a newly constructed CPU, whatever the address space holds and
\* however many Steps are made, the low nibble of F is zero and the N flag is
\* clear.
C31_StepsKeepFWellFormed ==
    /\ BitAnd(Registers.F, \h0F) = 0
    /\ BitAnd(Registers.F, \h40) = 0
    /\ ~GetFlagN(Registers)

\* 0xFF + 0x01 added from power-on: Z, H and C set, N and the low nibble clear.
C31_Witness ==
    /\ SteppedRunning
    /\ ByteAtPC(0) = \h80
    /\ last.pre.Registers.A = \hFF
    /\ last.pre.Registers.B = \h01
    /\ returned = <<8, 8, 4>>
    /\ Registers.F = \hB0

\* ------------------------------------------------------------ a jump over an instruction

\* The Step calls made in SpecJump.
MaxJumpSteps == 3

\* testJumpInstruction's program, its three immediates left open: LD A, x;
\* JP 0x0008; LD A, y; LD A, z. The bytes lie at 0x0000, 0x0002, 0x0005 and
\* 0x0007, so that 0x0008 holds z.
JumpProgram(x, y, z) == <<\h3E, x, \hC3, \h08, \h00, \h3E, y, \h3E, z>>

\* The immediates of the skipped load and of the load the jump lands on.
SkippedValues == {\hFF, \h33}
LandingValues == {\h22, \h00}

\* On a fresh address space and CPU, the program is loaded ...
JumpLoad ==
    /\ last.op = "New"
    /\ \E x \in Byte, y \in SkippedValues, z \in LandingValues : DoLoadROM(JumpProgram(x, y, z))

\* ... and stepped.
JumpStep == last.op # "New" /\ Len(returned) < MaxJumpSteps /\ DoStep

NextJump == JumpLoad \/ JumpStep

SpecJump == New /\ [][NextJump]_vars

\* C26: with [0x3E, x, 0xC3, 0x08, 0x00, 0x3E, y, 0x3E, z] loaded at 0 on a fresh
\* CPU, the first three Steps leave PC at 0x0002, 0x0008, 0x000A and A at x, x,
\* z, and A never holds y unless x or z is y. For x = 0x11, y = 0xFF, z = 0x22:
\* A is 0x11, 0x11, 0x22 and never 0xFF.
C26_JumpSkips ==
    LET n == Len(returned)
        x == Read(Memory, 1)
        y == Read(Memory, 6)
        z == Read(Memory, 8)
    IN  Memory = LoadROM(NewBasicMemory, JumpProgram(x, y, z)).mem =>
            /\ (last.op = "Step" /\ n <= 3) =>
                   /\ Registers.PC = <<\h0002, \h0008, \h000A>>[n]
                   /\ Registers.A = <<x, x, z>>[n]
            /\ y \notin {0, x, z} => Registers.A # y

\* ------------------------------------------------------------ a walk over an empty address space

\* The Step calls made in SpecWalk: once around the 16-bit address range.
MaxWalkSteps == 65536

\* On a fresh address space and CPU, nothing but Steps.
WalkStep == ops < MaxWalkSteps /\ DoStepUnlogged

NextWalk == WalkStep

SpecWalk == New /\ [][NextWalk]_vars

\* C33: on a never-written address space and a fresh CPU, after n Steps PC is
\* n mod 65536, TotalCycles is 4n, every other register has its power-on value
\* and the address space is still empty; the n-th Step has read one byte, at
\* n - 1, and returned 4; and PC is 0x0000 again after 65536 Steps and not
\* before.
C33_EmptyWalk ==
    /\ Registers = [NewRegisters EXCEPT !.PC = ops % 65536]
    /\ TotalCycles = 4 * ops
    /\ Memory = NewBasicMemory
    /\ ~Halted
    /\ last.op = "Step" => (last.ret = 4 /\ last.reads = <<(ops - 1) % 65536>>)
    /\ (ops > 0 /\ Registers.PC = \h0000) => ops % 65536 = 0

\* The 65536th Step, from 0xFFFF back to 0x0000.
C33_Witness ==
    /\ last.op = "Step"
    /\ ops = 65536
    /\ last.pre.Registers.PC = \hFFFF
    /\ Registers.PC = \h0000
    /\ TotalCycles = 262144

====
